---- MODULE Spec2Model ----
(***************************************************************************)
(* Model of modules/native-llm/android/src/main/cpp/native_llm_jni.cpp:    *)
(* the JNI bridge with two global handles (g_model, g_ctx), one atomic     *)
(* cancellation flag (g_cancelled) and the entry points nativeInit,        *)
(* nativeFree, nativeStop and nativeGenerate.                              *)
(*                                                                         *)
(* nativeInit, nativeFree and nativeStop are short straight-line handlers  *)
(* and are one action each.  nativeGenerate blocks its calling thread for  *)
(* the whole generation while other threads may enter any entry point, so  *)
(* it is a process with a program counter; every position is a point at    *)
(* which the shared state (g_model, g_cancelled, the engine's heap) is     *)
(* read or written or the sink is called.                                  *)
(*                                                                         *)
(* The inference engine (llama.cpp) is external.  Its heap is modelled by  *)
(* the life cycle of the objects the bridge allocates and releases, its    *)
(* tokenizer and sampler by a nondeterministic choice of their results.    *)
(* Using a released object is undefined behaviour: the model records the   *)
(* access and lets the process either crash or go on.                      *)
(***************************************************************************)
EXTENDS Integers, Sequences, FiniteSets

\* ------------------------------------------------------------------ bounds
\* Largest maxTokens argument passed to nativeGenerate (from 0 up; a negative
\* maxTokens behaves as 0 does at line 84).
MaxTokens == 2
\* Number of models llama_model_load_from_file loads in a run.
MaxModels == 2
\* Number of distinct addresses llama_init_from_model returns.
MaxCtx == 2

ModelIds == 1..MaxModels
CtxAddrs == 1..MaxCtx

\* The threads that call nativeGenerate.  A thread makes any number of calls,
\* one after the other; two threads are what it takes for two calls to overlap.
Callers == {1, 2}

\* ------------------------------------------------------- program constants
\* nullptr, and the jlong 0 that nativeInit returns on failure.
NULL == 0
\* llama.h: #define LLAMA_TOKEN_NULL -1
LLAMA_TOKEN_NULL == -1

\* Inputs of the entry points.
ModelPaths == {"model.gguf", "missing.gguf"}
RequestIds == {"req1", "req2"}
\* Each caller names its requests with an id of its own.
RequestIdOf(c) == IF c = 1 THEN "req1" ELSE "req2"
\* The vocabulary of the loaded model: token ids the sampler can return.
Vocab == {1, 2}
\* Results of llama_tokenize: a negative count (failure) or a count of two
\* tokens.  (A count of 0 takes the path the failure takes after line 60.)
TokenizeResults == {-1, 2}

VARIABLES
    g_model,      \* static llama_model * g_model: NULL or the id of a model
    g_ctx,        \* static llama_context * g_ctx: NULL or a context address
    g_cancelled,  \* static std::atomic<bool> g_cancelled
    modelState,   \* engine heap: model id -> "unalloc" | "live" | "freed"
    ctxState,     \* engine heap: context address -> "unalloc" | "live" | "freed"
    ctxModel,     \* engine heap: context address -> the model it was built on
    gen,          \* per caller: program counter and locals of its call
    sink,         \* per caller: the callback events its call has delivered
    obs,          \* per caller: history of what its call did
    lastCall,     \* history: the latest nativeInit/nativeFree call
    crashed       \* the process died of an access to released memory

vars == <<g_model, g_ctx, g_cancelled, modelState, ctxState, ctxModel,
          gen, sink, obs, lastCall, crashed>>

heap == <<modelState, ctxState, ctxModel>>

\* ------------------------------------------------------------- pure helpers
\* Native text is a sequence of bytes, Java text a sequence of UTF-16 code
\* units.

\* llama_vocab_get_text: the text piece of a token, a C string of whole
\* UTF-8 characters, or a null pointer for an id that is no token.  Token 1
\* is "a" (one byte), token 2 is U+00E9 (two bytes).
llama_vocab_get_text(token) ==
    CASE token = 1 -> [null |-> FALSE, bytes |-> <<97>>]
      [] token = 2 -> [null |-> FALSE, bytes |-> <<195, 169>>]
      [] OTHER     -> [null |-> TRUE, bytes |-> <<>>]

\* std::string token_str = piece ? piece : "";
TokenStr(token) ==
    LET piece == llama_vocab_get_text(token)
    IN  IF ~piece.null THEN piece.bytes ELSE <<>>

RECURSIVE c_str(_)
\* std::string::c_str() as a C string: the bytes before the first NUL.
c_str(bytes) ==
    IF bytes = <<>> THEN <<>>
    ELSE IF Head(bytes) = 0 THEN <<>>
    ELSE <<Head(bytes)>> \o c_str(Tail(bytes))

RECURSIVE NewStringUTF(_)
\* JNIEnv::NewStringUTF: decodes the one-, two- and three-byte forms of
\* (modified) UTF-8; a byte that starts no complete form becomes U+FFFD.
NewStringUTF(bytes) ==
    IF bytes = <<>> THEN <<>>
    ELSE LET b1 == bytes[1]
             n == Len(bytes)
         IN  IF b1 < 128
             THEN <<b1>> \o NewStringUTF(Tail(bytes))
             ELSE IF b1 \in 192..223 /\ n >= 2 /\ bytes[2] \in 128..191
             THEN <<(b1 - 192) * 64 + (bytes[2] - 128)>>
                  \o NewStringUTF(SubSeq(bytes, 3, n))
             ELSE IF b1 \in 224..239 /\ n >= 3 /\ bytes[2] \in 128..191
                     /\ bytes[3] \in 128..191
             THEN <<(b1 - 224) * 4096 + (bytes[2] - 128) * 64 + (bytes[3] - 128)>>
                  \o NewStringUTF(SubSeq(bytes, 4, n))
             ELSE <<65533>> \o NewStringUTF(Tail(bytes))

\* llama_model_load_from_file: only an existing model file loads.
LoadOk(path) == path = "model.gguf"

\* The handles a caller can hold: 0 and every address nativeInit has returned.
KnownHandles == {NULL} \cup {a \in CtxAddrs : ctxState[a] # "unalloc"}

\* The context a call works on, or the model behind it, has been released.
CtxDangling(ctx) ==
    IF ctxState[ctx] # "live" THEN TRUE
    ELSE modelState[ctxModel[ctx]] # "live"

\* The vocabulary pointer taken from g_model is null or points into a
\* released model.
VocabDangling(vocab) ==
    IF vocab = NULL THEN TRUE
    ELSE modelState[vocab] # "live"

RECURSIVE TokenEvents(_)
\* The onToken events of a sequence of sink events, in order.
TokenEvents(evs) ==
    IF evs = <<>> THEN <<>>
    ELSE IF Head(evs).kind = "onToken"
         THEN <<Head(evs)>> \o TokenEvents(Tail(evs))
         ELSE TokenEvents(Tail(evs))

RECURSIVE ConcatTexts(_)
\* The in-order concatenation of the texts of a sequence of events.
ConcatTexts(evs) ==
    IF evs = <<>> THEN <<>>
    ELSE Head(evs).text \o ConcatTexts(Tail(evs))

\* Line 94 over the iterations of a call: the native text that `output +=
\* token_str` builds from the tokens toks, in order.
RECURSIVE ConcatTokenStr(_)
ConcatTokenStr(toks) ==
    IF toks = <<>> THEN <<>>
    ELSE TokenStr(Head(toks)) \o ConcatTokenStr(Tail(toks))

\* ------------------------------------------------------------------ Init
\* The locals of nativeGenerate, before a call.
IdleGen ==
    [pc |-> "idle", handle |-> NULL, requestId |-> "", maxTokens |-> 0,
     vocab |-> NULL, n_prompt |-> 0, i |-> 0, output |-> <<>>,
     token_str |-> <<>>]

\* What is recorded of a call.  stale: its handle named a released context
\* when it entered.  stopAt: the number of onToken events it had delivered
\* when the first stop that concerns it was issued (0 for a stop pending at
\* entry), -1 without one.  exit: what ended the loop ("max", "eos",
\* "cancel").  uaf: it used a released object.  sampled: the tokens sampled
\* and kept, in order.  tokFailed: llama_tokenize failed.  prefills: the
\* number of prompt batches decoded.
IdleObs ==
    [stale |-> FALSE, stopAt |-> -1, exit |-> "none", uaf |-> FALSE,
     sampled |-> <<>>, tokFailed |-> FALSE, prefills |-> 0]

\* op: the entry point; handle: the handle nativeFree was given or nativeInit
\* returned; released: the objects the call handed to llama_free and
\* llama_model_free; stale: it handed over a context that was already released.
NoCall ==
    [op |-> "none", handle |-> NULL, released |-> {}, stale |-> FALSE]

Init ==
    /\ g_model = NULL
    /\ g_ctx = NULL
    /\ g_cancelled = FALSE
    /\ modelState = [m \in ModelIds |-> "unalloc"]
    /\ ctxState = [a \in CtxAddrs |-> "unalloc"]
    /\ ctxModel = [a \in CtxAddrs |-> NULL]
    /\ gen = [c \in Callers |-> IdleGen]
    /\ sink = [c \in Callers |-> <<>>]
    /\ obs = [c \in Callers |-> IdleObs]
    /\ lastCall = NoCall
    /\ crashed = FALSE

\* ------------------------------------------------------------ nativeInit
\* NativeInit without the early return of line 18: the context is created
\* although the load failed.
NativeInit_NoLoadCheck(path) ==
    /\ ~crashed
    /\ \E m \in ModelIds \cup {NULL} :
         /\ IF LoadOk(path)
            THEN /\ m # NULL
                 /\ modelState[m] = "unalloc"
                 /\ \A k \in ModelIds : k < m => modelState[k] # "unalloc"
                 /\ modelState' = [modelState EXCEPT ![m] = "live"]
            ELSE /\ m = NULL
                 /\ UNCHANGED modelState
         /\ g_model' = m
         /\ \E a \in CtxAddrs \cup {NULL} :
              /\ a # NULL => ctxState[a] # "live"
              /\ ctxState' = IF a = NULL THEN ctxState
                             ELSE [ctxState EXCEPT ![a] = "live"]
              /\ ctxModel' = IF a = NULL THEN ctxModel
                             ELSE [ctxModel EXCEPT ![a] = m]
              /\ g_ctx' = a
              /\ lastCall' = [NoCall EXCEPT !.op = "init", !.handle = a]
    /\ UNCHANGED <<g_cancelled, gen, sink, obs, crashed>>

\* Lines 12-25.  The load result overwrites g_model; on failure the call
\* returns 0 and leaves g_ctx alone; otherwise a context is created on the
\* new model (the creation itself may fail and yield nullptr), stored in
\* g_ctx and returned as the handle.  Nothing held by the slots before the
\* call is released.
NativeInit(path) ==
    /\ ~crashed
    /\ IF ~LoadOk(path)
       THEN /\ g_model' = NULL
            /\ lastCall' = [NoCall EXCEPT !.op = "init"]
            /\ UNCHANGED <<g_ctx, modelState, ctxState, ctxModel>>
       ELSE \E m \in ModelIds :
            /\ modelState[m] = "unalloc"
            /\ \A k \in ModelIds : k < m => modelState[k] # "unalloc"
            /\ modelState' = [modelState EXCEPT ![m] = "live"]
            /\ g_model' = m
            /\ \E a \in CtxAddrs \cup {NULL} :
                 /\ a # NULL => ctxState[a] # "live"
                 /\ ctxState' = IF a = NULL THEN ctxState
                                ELSE [ctxState EXCEPT ![a] = "live"]
                 /\ ctxModel' = IF a = NULL THEN ctxModel
                                ELSE [ctxModel EXCEPT ![a] = m]
                 /\ g_ctx' = a
                 /\ lastCall' = [NoCall EXCEPT !.op = "init", !.handle = a]
    /\ UNCHANGED <<g_cancelled, gen, sink, obs, crashed>>

\* ------------------------------------------------------------ nativeFree
\* Lines 28-38.  The handle, when non-null, is passed to llama_free whatever
\* its state; releasing a context that is already released is undefined
\* behaviour (the process dies there, or goes on).  Then the model in
\* g_model, when there is one, is released and both slots are cleared.
NativeFree(handle) ==
    /\ ~crashed
    /\ handle \in KnownHandles
    /\ LET ctx == handle
           doubleFree == ctx # NULL /\ ctxState[ctx] # "live"
           call == [op |-> "free", handle |-> handle, stale |-> doubleFree,
                    released |->
                        (IF ctx # NULL THEN {<<"ctx", ctx>>} ELSE {})
                        \cup (IF g_model # NULL THEN {<<"model", g_model>>} ELSE {})]
       IN  \/ /\ ctxState' = IF ctx # NULL
                              THEN [ctxState EXCEPT ![ctx] = "freed"]
                              ELSE ctxState
              /\ modelState' = IF g_model # NULL
                                THEN [modelState EXCEPT ![g_model] = "freed"]
                                ELSE modelState
              /\ g_model' = NULL
              /\ g_ctx' = NULL
              /\ lastCall' = call
              /\ UNCHANGED <<ctxModel, crashed>>
           \/ /\ doubleFree
              /\ crashed' = TRUE
              /\ lastCall' = [call EXCEPT !.released = {<<"ctx", ctx>>}]
              /\ UNCHANGED <<g_model, g_ctx, modelState, ctxState, ctxModel>>
    /\ UNCHANGED <<g_cancelled, gen, sink, obs>>

\* ------------------------------------------------------------ nativeStop
\* NativeStop that looks at the request id: the flag is set only when a call
\* in flight carries that id.
NativeStop_SameId(requestId) ==
    /\ ~crashed
    /\ g_cancelled' = IF \E c \in Callers :
                            /\ gen[c].pc \notin {"idle", "returned"}
                            /\ gen[c].requestId = requestId
                      THEN TRUE
                      ELSE g_cancelled
    /\ obs' = [c \in Callers |->
                 IF gen[c].pc \notin {"idle", "returned"} /\ obs[c].stopAt = -1
                 THEN [obs[c] EXCEPT !.stopAt = Len(TokenEvents(sink[c]))]
                 ELSE obs[c]]
    /\ UNCHANGED <<g_model, g_ctx, heap, gen, sink, lastCall, crashed>>

\* Lines 41-43.  The request id is not looked at.  History: for every call
\* in flight that has no stop recorded yet, the number of onToken events it
\* had delivered when the stop was issued.
NativeStop(requestId) ==
    /\ ~crashed
    /\ g_cancelled' = TRUE
    /\ obs' = [c \in Callers |->
                 IF gen[c].pc \notin {"idle", "returned"} /\ obs[c].stopAt = -1
                 THEN [obs[c] EXCEPT !.stopAt = Len(TokenEvents(sink[c]))]
                 ELSE obs[c]]
    /\ UNCHANGED <<g_model, g_ctx, heap, gen, sink, lastCall, crashed>>

\* -------------------------------------------------------- nativeGenerate
\* A step of call c that touched released memory: the process dies at the
\* access.  (The other outcome, going on, is part of each step below.)
Crash(c) ==
    /\ crashed' = TRUE
    /\ obs' = [obs EXCEPT ![c].uaf = TRUE]
    /\ UNCHANGED <<g_model, g_ctx, g_cancelled, heap, gen, sink, lastCall>>

\* GenEnter with the store of line 52 moved above the test of line 48: the
\* flag is cleared by every call, turned away or not.
GenEnter_ResetFirst(c, handle, requestId, maxTokens) ==
    /\ ~crashed
    /\ gen[c].pc \in {"idle", "returned"}
    /\ handle \in KnownHandles
    /\ LET ctx == handle
           args == [IdleGen EXCEPT !.handle = handle, !.requestId = requestId,
                                   !.maxTokens = maxTokens]
           stale == IF handle = NULL THEN FALSE ELSE ctxState[handle] = "freed"
       IN  IF ctx = NULL \/ g_model = NULL
           THEN /\ gen' = [gen EXCEPT ![c] = [args EXCEPT !.pc = "returned"]]
                /\ obs' = [obs EXCEPT ![c] = [IdleObs EXCEPT !.stale = stale]]
           ELSE /\ gen' = [gen EXCEPT ![c] = [args EXCEPT !.pc = "begin"]]
                /\ obs' = [obs EXCEPT ![c] =
                                [IdleObs EXCEPT !.stale = stale,
                                                !.stopAt = IF g_cancelled THEN 0 ELSE -1]]
    /\ sink' = [sink EXCEPT ![c] = <<>>]
    /\ g_cancelled' = FALSE
    /\ UNCHANGED <<g_model, g_ctx, heap, lastCall, crashed>>

\* Lines 46-48: caller c, not inside a call, makes a new call: it reads the
\* handle and tests `!ctx || !g_model`.  History: whether the handle named a
\* released context and whether a stop was pending when the call entered.
GenEnter(c, handle, requestId, maxTokens) ==
    /\ ~crashed
    /\ gen[c].pc \in {"idle", "returned"}
    /\ handle \in KnownHandles
    /\ LET ctx == handle
           args == [IdleGen EXCEPT !.handle = handle, !.requestId = requestId,
                                   !.maxTokens = maxTokens]
           stale == IF handle = NULL THEN FALSE ELSE ctxState[handle] = "freed"
       IN  IF ctx = NULL \/ g_model = NULL
           THEN /\ gen' = [gen EXCEPT ![c] = [args EXCEPT !.pc = "returned"]]
                /\ obs' = [obs EXCEPT ![c] = [IdleObs EXCEPT !.stale = stale]]
           ELSE /\ gen' = [gen EXCEPT ![c] = [args EXCEPT !.pc = "begin"]]
                /\ obs' = [obs EXCEPT ![c] =
                                [IdleObs EXCEPT !.stale = stale,
                                                !.stopAt = IF g_cancelled THEN 0 ELSE -1]]
    /\ sink' = [sink EXCEPT ![c] = <<>>]
    /\ UNCHANGED <<g_model, g_ctx, g_cancelled, heap, lastCall, crashed>>

\* GenBegin that gives up on a tokenizer failure: a negative count makes the
\* call return at once.
GenBegin_AbortOnFailure(c) ==
    /\ ~crashed
    /\ gen[c].pc = "begin"
    /\ LET vocab == g_model
           bad == VocabDangling(vocab)
       IN  \/ \E n \in TokenizeResults :
                /\ g_cancelled' = FALSE
                /\ gen' = [gen EXCEPT ![c].pc = IF n < 0 THEN "returned" ELSE "prefill",
                                      ![c].vocab = vocab,
                                      ![c].n_prompt = IF n < 0 THEN 0 ELSE n]
                /\ obs' = [obs EXCEPT ![c].tokFailed = n < 0,
                                      ![c].uaf = @ \/ bad]
                /\ UNCHANGED <<g_model, g_ctx, heap, sink, lastCall, crashed>>
           \/ /\ bad
              /\ Crash(c)

\* Lines 50-60: the flag is cleared, the vocabulary is taken from g_model as
\* it is now, and the prompt is tokenized with it; a negative count becomes 0.
GenBegin(c) ==
    /\ ~crashed
    /\ gen[c].pc = "begin"
    /\ LET vocab == g_model
           bad == VocabDangling(vocab)
       IN  \/ \E n \in TokenizeResults :
                /\ g_cancelled' = FALSE
                /\ gen' = [gen EXCEPT ![c].pc = "prefill",
                                      ![c].vocab = vocab,
                                      ![c].n_prompt = IF n < 0 THEN 0 ELSE n]
                /\ obs' = [obs EXCEPT ![c].tokFailed = n < 0,
                                      ![c].uaf = @ \/ bad]
                /\ UNCHANGED <<g_model, g_ctx, heap, sink, lastCall, crashed>>
           \/ /\ bad
              /\ Crash(c)

\* GenPrefill without the test of line 63: the prompt batch is decoded
\* whatever its length.
GenPrefill_Unconditional(c) ==
    /\ ~crashed
    /\ gen[c].pc = "prefill"
    /\ LET decodes == TRUE
           bad == decodes /\ CtxDangling(gen[c].handle)
       IN  \/ /\ gen' = [gen EXCEPT ![c].pc = "loop"]
              /\ obs' = [obs EXCEPT ![c].prefills = IF decodes THEN @ + 1 ELSE @,
                                    ![c].uaf = @ \/ bad]
              /\ UNCHANGED <<g_model, g_ctx, g_cancelled, heap, sink, lastCall,
                             crashed>>
           \/ /\ bad
              /\ Crash(c)

\* Lines 63-66: the prompt batch is decoded when it holds a token.
GenPrefill(c) ==
    /\ ~crashed
    /\ gen[c].pc = "prefill"
    /\ LET decodes == gen[c].n_prompt > 0
           bad == decodes /\ CtxDangling(gen[c].handle)
       IN  \/ /\ gen' = [gen EXCEPT ![c].pc = "loop"]
              /\ obs' = [obs EXCEPT ![c].prefills = IF decodes THEN @ + 1 ELSE @,
                                    ![c].uaf = @ \/ bad]
              /\ UNCHANGED <<g_model, g_ctx, g_cancelled, heap, sink, lastCall,
                             crashed>>
           \/ /\ bad
              /\ Crash(c)

\* GenLoop with the bound off by one: `i <= maxTokens`.
GenLoop_OffByOne(c) ==
    /\ ~crashed
    /\ gen[c].pc = "loop"
    /\ IF gen[c].i <= gen[c].maxTokens /\ ~g_cancelled
       THEN /\ gen' = [gen EXCEPT ![c].pc = "sample"]
            /\ UNCHANGED obs
       ELSE /\ gen' = [gen EXCEPT ![c].pc = "done"]
            /\ obs' = [obs EXCEPT ![c].exit =
                            IF gen[c].i <= gen[c].maxTokens THEN "cancel" ELSE "max"]
    /\ UNCHANGED <<g_model, g_ctx, g_cancelled, heap, sink, lastCall, crashed>>

\* GenLoop that treats the flag as a pause: while it is set the loop neither
\* goes on nor ends.
GenLoop_WaitWhileCancelled(c) ==
    /\ ~crashed
    /\ gen[c].pc = "loop"
    /\ IF gen[c].i < gen[c].maxTokens
       THEN /\ gen' = [gen EXCEPT ![c].pc = IF g_cancelled THEN "loop" ELSE "sample"]
            /\ UNCHANGED obs
       ELSE /\ gen' = [gen EXCEPT ![c].pc = "done"]
            /\ obs' = [obs EXCEPT ![c].exit = "max"]
    /\ UNCHANGED <<g_model, g_ctx, g_cancelled, heap, sink, lastCall, crashed>>

\* Line 84: `i < maxTokens && !g_cancelled.load()`; the flag is read only
\* when i < maxTokens.
GenLoop(c) ==
    /\ ~crashed
    /\ gen[c].pc = "loop"
    /\ IF gen[c].i < gen[c].maxTokens /\ ~g_cancelled
       THEN /\ gen' = [gen EXCEPT ![c].pc = "sample"]
            /\ UNCHANGED obs
       ELSE /\ gen' = [gen EXCEPT ![c].pc = "done"]
            /\ obs' = [obs EXCEPT ![c].exit =
                            IF gen[c].i < gen[c].maxTokens THEN "cancel" ELSE "max"]
    /\ UNCHANGED <<g_model, g_ctx, g_cancelled, heap, sink, lastCall, crashed>>

\* GenSample with `return` for the `break` of line 86: the end marker leaves
\* the function, not the loop.
GenSample_ReturnOnEnd(c) ==
    /\ ~crashed
    /\ gen[c].pc = "sample"
    /\ LET bad == CtxDangling(gen[c].handle)
       IN  \/ \E token \in Vocab \cup {LLAMA_TOKEN_NULL} :
                /\ IF token = LLAMA_TOKEN_NULL
                   THEN /\ gen' = [gen EXCEPT ![c].pc = "returned"]
                        /\ obs' = [obs EXCEPT ![c].exit = "eos",
                                              ![c].uaf = @ \/ bad]
                   ELSE /\ gen' = [gen EXCEPT ![c].pc = "emit",
                                              ![c].token_str = TokenStr(token),
                                              ![c].output = @ \o TokenStr(token)]
                        /\ obs' = [obs EXCEPT ![c].sampled = Append(@, token),
                                              ![c].uaf = @ \/ bad
                                                  \/ VocabDangling(gen[c].vocab)]
                /\ UNCHANGED <<g_model, g_ctx, g_cancelled, heap, sink, lastCall,
                               crashed>>
           \/ /\ (IF bad THEN TRUE ELSE VocabDangling(gen[c].vocab))
              /\ Crash(c)

\* GenSample with `output = token_str` for the `output += token_str` of line 94.
GenSample_Overwrite(c) ==
    /\ ~crashed
    /\ gen[c].pc = "sample"
    /\ LET bad == CtxDangling(gen[c].handle)
       IN  \/ \E token \in Vocab \cup {LLAMA_TOKEN_NULL} :
                /\ IF token = LLAMA_TOKEN_NULL
                   THEN /\ gen' = [gen EXCEPT ![c].pc = "done"]
                        /\ obs' = [obs EXCEPT ![c].exit = "eos",
                                              ![c].uaf = @ \/ bad]
                   ELSE /\ gen' = [gen EXCEPT ![c].pc = "emit",
                                              ![c].token_str = TokenStr(token),
                                              ![c].output = TokenStr(token)]
                        /\ obs' = [obs EXCEPT ![c].sampled = Append(@, token),
                                              ![c].uaf = @ \/ bad
                                                  \/ VocabDangling(gen[c].vocab)]
                /\ UNCHANGED <<g_model, g_ctx, g_cancelled, heap, sink, lastCall,
                               crashed>>
           \/ /\ (IF bad THEN TRUE ELSE VocabDangling(gen[c].vocab))
              /\ Crash(c)

\* GenSample that reads the flag again between the sample and the decode and
\* leaves the loop there when it is set.
GenSample_CheckFlag(c) ==
    /\ ~crashed
    /\ gen[c].pc = "sample"
    /\ LET bad == CtxDangling(gen[c].handle)
       IN  \/ \E token \in Vocab \cup {LLAMA_TOKEN_NULL} :
                /\ IF token = LLAMA_TOKEN_NULL
                   THEN /\ gen' = [gen EXCEPT ![c].pc = "done"]
                        /\ obs' = [obs EXCEPT ![c].exit = "eos",
                                              ![c].uaf = @ \/ bad]
                   ELSE IF g_cancelled
                   THEN /\ gen' = [gen EXCEPT ![c].pc = "done"]
                        /\ obs' = [obs EXCEPT ![c].exit = "cancel",
                                              ![c].uaf = @ \/ bad]
                   ELSE /\ gen' = [gen EXCEPT ![c].pc = "emit",
                                              ![c].token_str = TokenStr(token),
                                              ![c].output = @ \o TokenStr(token)]
                        /\ obs' = [obs EXCEPT ![c].sampled = Append(@, token),
                                              ![c].uaf = @ \/ bad
                                                  \/ VocabDangling(gen[c].vocab)]
                /\ UNCHANGED <<g_model, g_ctx, g_cancelled, heap, sink, lastCall,
                               crashed>>
           \/ /\ (IF bad THEN TRUE ELSE VocabDangling(gen[c].vocab))
              /\ Crash(c)

\* GenSample without the test of line 86: the end marker is decoded and its
\* piece appended like any other token.
GenSample_NoEndTest(c) ==
    /\ ~crashed
    /\ gen[c].pc = "sample"
    /\ LET bad == CtxDangling(gen[c].handle)
       IN  \/ \E token \in Vocab \cup {LLAMA_TOKEN_NULL} :
                /\ gen' = [gen EXCEPT ![c].pc = "emit",
                                      ![c].token_str = TokenStr(token),
                                      ![c].output = @ \o TokenStr(token)]
                /\ obs' = [obs EXCEPT ![c].sampled = Append(@, token),
                                      ![c].uaf = @ \/ bad
                                          \/ VocabDangling(gen[c].vocab)]
                /\ UNCHANGED <<g_model, g_ctx, g_cancelled, heap, sink, lastCall,
                               crashed>>
           \/ /\ (IF bad THEN TRUE ELSE VocabDangling(gen[c].vocab))
              /\ Crash(c)

\* Lines 85-94: a token is sampled from the context; the end marker leaves
\* the loop; any other token is decoded and its piece appended to output.
GenSample(c) ==
    /\ ~crashed
    /\ gen[c].pc = "sample"
    /\ LET bad == CtxDangling(gen[c].handle)
       IN  \/ \E token \in Vocab \cup {LLAMA_TOKEN_NULL} :
                /\ IF token = LLAMA_TOKEN_NULL
                   THEN /\ gen' = [gen EXCEPT ![c].pc = "done"]
                        /\ obs' = [obs EXCEPT ![c].exit = "eos",
                                              ![c].uaf = @ \/ bad]
                   ELSE /\ gen' = [gen EXCEPT ![c].pc = "emit",
                                              ![c].token_str = TokenStr(token),
                                              ![c].output = @ \o TokenStr(token)]
                        /\ obs' = [obs EXCEPT ![c].sampled = Append(@, token),
                                              ![c].uaf = @ \/ bad
                                                  \/ VocabDangling(gen[c].vocab)]
                /\ UNCHANGED <<g_model, g_ctx, g_cancelled, heap, sink, lastCall,
                               crashed>>
           \/ /\ (IF bad THEN TRUE ELSE VocabDangling(gen[c].vocab))
              /\ Crash(c)

\* Lines 97-99 and the loop's ++i: onToken(requestId, token_str), the text
\* passed as NewStringUTF(token_str.c_str()).
GenEmit(c) ==
    /\ ~crashed
    /\ gen[c].pc = "emit"
    /\ sink' = [sink EXCEPT ![c] = Append(@, [kind |-> "onToken",
                                              requestId |-> gen[c].requestId,
                                              text |-> NewStringUTF(c_str(gen[c].token_str))])]
    /\ gen' = [gen EXCEPT ![c].pc = "loop", ![c].i = @ + 1]
    /\ UNCHANGED <<g_model, g_ctx, g_cancelled, heap, obs, lastCall, crashed>>

\* Lines 103-108: onDone(requestId, output), the text passed as
\* NewStringUTF(output.c_str()); cleanup, return.
GenDone(c) ==
    /\ ~crashed
    /\ gen[c].pc = "done"
    /\ sink' = [sink EXCEPT ![c] = Append(@, [kind |-> "onDone",
                                              requestId |-> gen[c].requestId,
                                              text |-> NewStringUTF(c_str(gen[c].output))])]
    /\ gen' = [gen EXCEPT ![c].pc = "returned"]
    /\ UNCHANGED <<g_model, g_ctx, g_cancelled, heap, obs, lastCall, crashed>>

NativeGenerate(c) ==
    \/ \E handle \in CtxAddrs \cup {NULL}, maxTokens \in 0..MaxTokens :
            GenEnter(c, handle, RequestIdOf(c), maxTokens)
    \/ GenBegin(c)
    \/ GenPrefill(c)
    \/ GenLoop(c)
    \/ GenSample(c)
    \/ GenEmit(c)
    \/ GenDone(c)

\* Lines 50-108: the next step of the call caller c is in.
GenStep(c) ==
    \/ GenBegin(c)
    \/ GenPrefill(c)
    \/ GenLoop(c)
    \/ GenSample(c)
    \/ GenEmit(c)
    \/ GenDone(c)

Lifecycle ==
    \/ \E path \in ModelPaths : NativeInit(path)
    \/ \E handle \in CtxAddrs \cup {NULL} : NativeFree(handle)
    \/ \E requestId \in RequestIds : NativeStop(requestId)

Next ==
    \/ Lifecycle
    \/ \E c \in Callers : NativeGenerate(c)

\* Every interleaving of the four entry points, two callers of
\* nativeGenerate included.
Spec == Init /\ [][Next]_vars

\* The specifications below take their steps from Next and start in a state
\* Spec reaches, so each of their behaviours is a behaviour of the program.

\* The handle life cycle alone: every sequence of nativeInit, nativeFree and
\* nativeStop calls.
SpecLifecycle == Init /\ [][Lifecycle]_vars

\* One caller: every interleaving of nativeInit, nativeFree and nativeStop
\* with the calls of a single generating thread.
NextOneCaller ==
    \/ Lifecycle
    \/ NativeGenerate(1)

SpecOneCaller == Init /\ [][NextOneCaller]_vars

\* The state after one successful nativeInit.
InitLoaded ==
    /\ g_model = 1
    /\ g_ctx = 1
    /\ g_cancelled = FALSE
    /\ modelState = [m \in ModelIds |-> IF m = 1 THEN "live" ELSE "unalloc"]
    /\ ctxState = [a \in CtxAddrs |-> IF a = 1 THEN "live" ELSE "unalloc"]
    /\ ctxModel = [a \in CtxAddrs |-> IF a = 1 THEN 1 ELSE NULL]
    /\ gen = [c \in Callers |-> IdleGen]
    /\ sink = [c \in Callers |-> <<>>]
    /\ obs = [c \in Callers |-> IdleObs]
    /\ lastCall = [NoCall EXCEPT !.op = "init", !.handle = 1]
    /\ crashed = FALSE

\* Two callers on a loaded session: every interleaving of nativeStop with
\* the calls of two generating threads.
NextLoaded ==
    \/ \E requestId \in RequestIds : NativeStop(requestId)
    \/ \E c \in Callers : NativeGenerate(c)

SpecLoaded == InitLoaded /\ [][NextLoaded]_vars

\* One caller on a loaded session, stopped under another request's id: every
\* interleaving of the calls of caller 1, whose request id is "req1", with
\* nativeStop("req2").
NextOtherId ==
    \/ NativeStop("req2")
    \/ NativeGenerate(1)

SpecOtherId == InitLoaded /\ [][NextOtherId]_vars

\* SpecOtherId with the thread inside nativeGenerate running on: every
\* engine call and every callback returns, so a call in flight takes its
\* next step.  Whether and when nativeStop or a new call is made is left
\* open.
FairOtherId == SpecOtherId /\ WF_vars(GenStep(1))

\* SpecLoaded with both threads running on in the same way.
FairLoaded == SpecLoaded /\ \A c \in Callers : WF_vars(GenStep(c))

\* The entry of nativeGenerate in every state of the handle life cycle: any
\* sequence of nativeInit, nativeFree and nativeStop calls, and caller 1
\* reaching the test of line 48.
NextEntry ==
    \/ Lifecycle
    \/ \E handle \in CtxAddrs \cup {NULL}, maxTokens \in 0..MaxTokens :
            GenEnter(1, handle, RequestIdOf(1), maxTokens)

SpecEntry == Init /\ [][NextEntry]_vars

\* ================================================================ claims
\* The call of caller c passed the test of line 48 and has left the loop.
Ran(c) == obs[c].exit # "none"

\* The call of caller c is between the test of line 48 and its return.
InFlight(c) == gen[c].pc \notin {"idle", "returned"}

\* The events a call that ran to its end must have delivered: its onToken
\* events and then one onDone.
TokensThenDone(evs) ==
    /\ Len(evs) >= 1
    /\ evs[Len(evs)].kind = "onDone"
    /\ \A k \in 1..(Len(evs) - 1) : evs[k].kind = "onToken"

\* C1: every call that runs a generation delivers, for its request id, zero
\* or more onToken events and then exactly one onDone, whatever ended the
\* loop: an onDone is the last event at every moment, it is there once the
\* call has returned, and it is not there before.
OnDoneExactlyOnceAndLast ==
    \A c \in Callers :
        LET evs == sink[c]
        IN  /\ \A k \in 1..Len(evs) : evs[k].requestId = gen[c].requestId
            /\ \A k \in 1..Len(evs) : evs[k].kind = "onDone" => k = Len(evs)
            /\ (gen[c].pc = "returned" /\ Ran(c)) => TokensThenDone(evs)
            /\ InFlight(c) => \A k \in 1..Len(evs) : evs[k].kind = "onToken"

\* C1 witness: a call that observed a cancellation after a token has returned.
CancelledCallReturned ==
    \E c \in Callers :
        /\ gen[c].pc = "returned"
        /\ obs[c].exit = "cancel"
        /\ Len(sink[c]) >= 2

\* C2: with maxTokens = N >= 0, no stop and no end marker, a call delivers
\* exactly N onToken events, the texts of the sampled tokens in the order
\* sampled, and then one onDone whose text is their concatenation (N = 0:
\* no onToken and an onDone with empty text).
ExactlyMaxTokensThenDone ==
    \A c \in Callers :
        (gen[c].pc = "returned" /\ Ran(c) /\ obs[c].stopAt = -1
            /\ obs[c].exit # "eos")
        => LET toks == TokenEvents(sink[c])
               N == gen[c].maxTokens
           IN  /\ Len(toks) = N
               /\ Len(obs[c].sampled) = N
               /\ \A k \in 1..N : sink[c][k].kind = "onToken"
               /\ \A k \in 1..N :
                      sink[c][k].text = NewStringUTF(TokenStr(obs[c].sampled[k]))
               /\ Len(sink[c]) = N + 1
               /\ sink[c][N + 1].kind = "onDone"
               /\ sink[c][N + 1].text = ConcatTexts(toks)
               /\ N = 0 => sink[c][1].text = <<>>

\* C2 witness: a call with maxTokens = MaxTokens has returned without a stop
\* or an end marker, its first two tokens having different texts.
FullLengthCallReturned ==
    \E c \in Callers :
        /\ gen[c].pc = "returned"
        /\ obs[c].exit = "max"
        /\ obs[c].stopAt = -1
        /\ gen[c].maxTokens = MaxTokens
        /\ Len(obs[c].sampled) >= 2
        /\ obs[c].sampled[1] # obs[c].sampled[2]

\* C3: a stop issued before a call starts or while it runs ends the loop
\* within one sampling step: the call delivers at most one onToken after the
\* stop, and exactly one onDone when it returns.
StopEndsLoopWithinOneStep ==
    \A c \in Callers :
        obs[c].stopAt >= 0
        => /\ Len(TokenEvents(sink[c])) - obs[c].stopAt <= 1
           /\ (gen[c].pc = "returned" /\ Ran(c)) => TokensThenDone(sink[c])

\* C4: a call whose handle names a released context fails at once: it is
\* not let into the generation, delivers nothing and touches no released
\* object.
GenerateAfterFreeFails ==
    \A c \in Callers :
        obs[c].stale
        => /\ gen[c].pc = "returned"
           /\ ~Ran(c)
           /\ sink[c] = <<>>
           /\ ~obs[c].uaf

\* C5: a call made while another is in flight fails fast, so no two calls
\* are ever inside a generation at the same time.
OneGenerationAtATime ==
    \A c1, c2 \in Callers : (InFlight(c1) /\ InFlight(c2)) => c1 = c2

\* C6: no context that has not been released refers to a released model.
LiveContextHasLiveModel ==
    \A a \in CtxAddrs :
        ctxState[a] = "live" => modelState[ctxModel[a]] = "live"

\* C7: nativeFree called twice with the same handle is a no-op the second
\* time: the second call hands nothing to llama_free or llama_model_free and
\* leaves the handles and the heap as the first call left them.
FreeTwiceIsNoOp ==
    [][\A handle \in CtxAddrs \cup {NULL} :
          (lastCall.op = "free" /\ lastCall.handle = handle /\ NativeFree(handle))
          => /\ lastCall'.released = {}
             /\ ~lastCall'.stale
             /\ ~crashed'
             /\ UNCHANGED <<g_model, g_ctx, modelState, ctxState, ctxModel>>]_vars

\* C8: at most one model and at most one context are allocated and not yet
\* released, and g_model is non-null only when it holds a loaded model.
OneLiveHandle ==
    /\ Cardinality({m \in ModelIds : modelState[m] = "live"}) <= 1
    /\ Cardinality({a \in CtxAddrs : ctxState[a] = "live"}) <= 1
    /\ g_model # NULL => modelState[g_model] = "live"

\* C9: nativeInit on a path that fails to load returns 0, allocates no
\* context and does not store a context in g_ctx.
InitFailureCreatesNoSession ==
    [][\A path \in ModelPaths :
          (~LoadOk(path) /\ NativeInit(path))
          => /\ lastCall'.op = "init"
             /\ lastCall'.handle = NULL
             /\ ctxState' = ctxState
             /\ ctxModel' = ctxModel
             /\ g_ctx' = g_ctx]_vars

\* C9 witness: a load has failed while an earlier session exists; the failed
\* call has returned 0 and g_ctx still holds the earlier context.
InitFailedWithSessionKept ==
    /\ lastCall.op = "init"
    /\ lastCall.handle = NULL
    /\ g_model = NULL
    /\ g_ctx # NULL
    /\ ctxState[g_ctx] = "live"

\* C10: on every way out of the loop the text of onDone is the in-order
\* concatenation of the texts of the onToken events delivered before it, and
\* a call ended by a cancellation returns with such an onDone as its last
\* event.
DoneTextIsConcatenation ==
    \A c \in Callers :
        /\ \A k \in 1..Len(sink[c]) :
               sink[c][k].kind = "onDone"
               => sink[c][k].text = ConcatTexts(SubSeq(sink[c], 1, k - 1))
        /\ (gen[c].pc = "returned" /\ obs[c].exit \in {"max", "eos", "cancel"})
           => sink[c][Len(sink[c])] =
                  [kind |-> "onDone", requestId |-> gen[c].requestId,
                   text |-> ConcatTexts(TokenEvents(sink[c]))]

\* C10 witness: a cancelled call has returned an onDone that carries the
\* non-empty text of the token delivered before the cancellation was observed.
CancelledCallCarriesText ==
    \E c \in Callers :
        /\ gen[c].pc = "returned"
        /\ obs[c].exit = "cancel"
        /\ Len(TokenEvents(sink[c])) = 1
        /\ sink[c][Len(sink[c])].text # <<>>

\* C11: the cancellation flag is set to false at the start of every
\* generation, and nativeStop sets it to true whatever request id it is
\* given: a stop that names another id than the running call's cancels that
\* call, which leaves its loop at the next test of the flag.
StopCancelsWhateverTheId ==
    [][/\ \A c \in Callers :
             (GenBegin(c) /\ ~crashed') => g_cancelled' = FALSE
       /\ \A requestId \in RequestIds :
             NativeStop(requestId)
             => /\ g_cancelled' = TRUE
                /\ gen' = gen
                /\ sink' = sink
       /\ \A c \in Callers :
             (GenLoop(c) /\ g_cancelled /\ gen[c].i < gen[c].maxTokens)
             => /\ gen'[c].pc = "done"
                /\ obs'[c].exit = "cancel"]_vars

\* C11 witness: the call of request "req1" has returned cancelled after a
\* token, the only stops having named "req2".
OtherIdStopCancelled ==
    /\ gen[1].requestId = "req1"
    /\ gen[1].pc = "returned"
    /\ obs[1].exit = "cancel"
    /\ obs[1].stopAt = 1
    /\ Len(TokenEvents(sink[1])) = 1

\* C12: nativeStop does not wait for the loop (the step that sets the flag
\* moves no call), and the flag is read only at the top of an iteration: once
\* iteration i has passed the test, a stop changes nothing in it (the token
\* is sampled and, unless it is the end marker, decoded and delivered by
\* onToken), and a call leaves the loop by cancellation only at the test
\* before an iteration, with the onToken of every iteration it started
\* delivered.  A step of call c is a step that changes gen[c].
StopTakesEffectAtLoopTest ==
    [][/\ (g_cancelled' /\ ~g_cancelled) => (gen' = gen /\ sink' = sink)
       /\ \A c \in Callers :
             /\ (g_cancelled /\ gen[c].pc = "sample" /\ gen'[c] # gen[c])
                => \/ /\ gen'[c].pc = "emit"
                      /\ Len(obs'[c].sampled) = Len(obs[c].sampled) + 1
                      /\ obs'[c].exit = "none"
                   \/ /\ gen'[c].pc = "done"
                      /\ obs'[c].exit = "eos"
             /\ (g_cancelled /\ gen[c].pc = "emit" /\ gen'[c] # gen[c])
                => /\ Len(sink'[c]) = Len(sink[c]) + 1
                   /\ sink'[c][Len(sink'[c])].kind = "onToken"
                   /\ gen'[c].pc = "loop"
                   /\ gen'[c].i = gen[c].i + 1
             /\ (obs'[c].exit = "cancel" /\ obs[c].exit # "cancel")
                => /\ gen[c].pc = "loop"
                   /\ g_cancelled
                   /\ gen'[c].pc = "done"
                   /\ Len(TokenEvents(sink[c])) = gen[c].i
                   /\ Len(obs[c].sampled) = gen[c].i]_vars

\* C12 witness: a stop has been issued after the running call passed the test
\* of iteration 0 and before its onToken, which is still to come.
StopAfterLoopTest ==
    \E c \in Callers :
        /\ gen[c].pc = "emit"
        /\ gen[c].i = 0
        /\ g_cancelled
        /\ obs[c].stopAt = 0

\* The phase of the request of caller c: 0 Idle (no call, or a call turned
\* away at line 48), 1 Tokenizing, 2 Prefilling, 3 Decoding, 4 terminal.
Phase(g, o) ==
    CASE g.pc = "idle" -> 0
      [] g.pc = "begin" -> 1
      [] g.pc = "prefill" -> 2
      [] g.pc \in {"loop", "sample", "emit"} -> 3
      [] g.pc = "done" -> 4
      [] g.pc = "returned" -> IF o.exit # "none" THEN 4 ELSE 0

\* C13: a request goes through its phases in the order Idle, Tokenizing,
\* Prefilling, Decoding, terminal, and the prompt batch is decoded exactly
\* once if tokenization produced a token and not at all otherwise, before
\* the first sample and before any onToken.  In every state the work of each
\* phase a call has passed is done and that of no later phase is: the
\* tokenizer's result is there from Prefilling on; the prompt batch is
\* decoded from Decoding on, once or never by the prompt's length; tokens
\* are sampled and delivered from Decoding on; the loop has been left, and
\* onDone is delivered, in the terminal phase only.
PhasesInOrderPrefillOnce ==
    \A c \in Callers :
        LET ph == Phase(gen[c], obs[c])
        IN  /\ ph <= 1 => /\ gen[c].vocab = NULL
                          /\ gen[c].n_prompt = 0
                          /\ ~obs[c].tokFailed
            /\ ph >= 2 => (obs[c].tokFailed <=> gen[c].n_prompt = 0)
            /\ ph <= 2 => /\ obs[c].prefills = 0
                          /\ obs[c].sampled = <<>>
                          /\ sink[c] = <<>>
            /\ ph >= 3 => obs[c].prefills = IF gen[c].n_prompt > 0 THEN 1 ELSE 0
            /\ ph <= 3 => /\ obs[c].exit = "none"
                          /\ \A k \in 1..Len(sink[c]) : sink[c][k].kind = "onToken"
            /\ ph = 4 => /\ obs[c].exit # "none"
                         /\ gen[c].pc = "returned" => TokensThenDone(sink[c])

\* C13 witness: a call whose prompt has tokens has decoded the prompt batch
\* once, then sampled and delivered MaxTokens tokens, and has returned.
PrefilledCallReturned ==
    \E c \in Callers :
        /\ gen[c].n_prompt > 0
        /\ obs[c].prefills = 1
        /\ Len(obs[c].sampled) = MaxTokens
        /\ Len(TokenEvents(sink[c])) = MaxTokens
        /\ gen[c].pc = "returned"

\* C14: when the tokenizer returns a negative count the prompt length is
\* taken as 0, the prompt batch is not decoded, and the call goes on to the
\* loop: it samples and delivers tokens as any other call and returns only
\* after exactly one onDone.
TokenizeFailureStillGenerates ==
    \A c \in Callers :
        obs[c].tokFailed
        => /\ gen[c].n_prompt = 0
           /\ obs[c].prefills = 0
           /\ gen[c].pc \in {"prefill", "loop", "sample", "emit", "done", "returned"}
           /\ gen[c].pc \in {"done", "returned"} => Ran(c)
           /\ obs[c].exit = "max" => Len(obs[c].sampled) = gen[c].maxTokens
           /\ gen[c].pc = "returned"
              => /\ TokensThenDone(sink[c])
                 /\ Len(TokenEvents(sink[c])) = Len(obs[c].sampled)

\* C14 witness: a call whose tokenization failed has run the loop to
\* maxTokens = MaxTokens and returned after its onDone.
FailedTokenizationCallReturned ==
    \E c \in Callers :
        /\ obs[c].tokFailed
        /\ gen[c].pc = "returned"
        /\ obs[c].exit = "max"
        /\ gen[c].maxTokens = MaxTokens
        /\ Len(TokenEvents(sink[c])) = MaxTokens
        /\ sink[c][Len(sink[c])].kind = "onDone"

\* C15: when the sampler returns the end marker at iteration i the loop ends
\* at once: the marker is never decoded (obs.sampled holds the tokens that
\* went on to llama_decode), no onToken is delivered for it, nothing is
\* appended to the output for it, and onDone carries the texts of
\* iterations 0..i-1 and nothing else.
EndMarkerEndsLoop ==
    \A c \in Callers :
        /\ \A k \in 1..Len(obs[c].sampled) : obs[c].sampled[k] # LLAMA_TOKEN_NULL
        /\ obs[c].exit = "eos"
           => LET i == gen[c].i
              IN  /\ gen[c].pc \in {"done", "returned"}
                  /\ i < gen[c].maxTokens
                  /\ Len(obs[c].sampled) = i
                  /\ Len(TokenEvents(sink[c])) = i
                  /\ \A k \in 1..i :
                         sink[c][k] = [kind |-> "onToken",
                                       requestId |-> gen[c].requestId,
                                       text |-> NewStringUTF(c_str(TokenStr(obs[c].sampled[k])))]
                  /\ gen[c].output = ConcatTokenStr(obs[c].sampled)
                  /\ gen[c].pc = "done" => Len(sink[c]) = i
                  /\ gen[c].pc = "returned"
                     => /\ Len(sink[c]) = i + 1
                        /\ sink[c][i + 1] =
                               [kind |-> "onDone",
                                requestId |-> gen[c].requestId,
                                text |-> NewStringUTF(c_str(ConcatTokenStr(obs[c].sampled)))]

\* C15 witness: a call with maxTokens = MaxTokens met the end marker at
\* iteration 1 and has returned: one onToken, then onDone.
EndMarkerAtSecondIteration ==
    \E c \in Callers :
        /\ obs[c].exit = "eos"
        /\ gen[c].pc = "returned"
        /\ gen[c].i = 1
        /\ gen[c].maxTokens = MaxTokens
        /\ Len(sink[c]) = 2
        /\ sink[c][2].text # <<>>

\* C16: the context and the model of a call in flight are not released while
\* it runs: as long as a call that entered with an unreleased handle is in
\* flight its context and that context's model are live, and none of its
\* tokenize, sample or decode steps touches a released object.
NoReleaseWhileInFlight ==
    \A c \in Callers :
        ~obs[c].stale
        => /\ InFlight(c) => ~CtxDangling(gen[c].handle)
           /\ ~obs[c].uaf

\* C17: a call made with handle 0, or while g_model is null, returns at the
\* test of line 48: it delivers no onToken and no onDone, tokenizes, decodes
\* and samples nothing, and leaves g_cancelled, g_model, g_ctx and the
\* engine's objects as they were.  A step that changes the record of a
\* caller who is not inside a call is that caller's entry into a new call.
TurnedAwayCallChangesNothing ==
    [][\A c \in Callers :
          (/\ gen[c].pc \in {"idle", "returned"}
           /\ <<gen'[c], obs'[c], sink'[c]>> # <<gen[c], obs[c], sink[c]>>
           /\ (gen'[c].handle = NULL \/ g_model = NULL))
          => /\ gen'[c].pc = "returned"
             /\ sink'[c] = <<>>
             /\ obs'[c].exit = "none"
             /\ obs'[c].sampled = <<>>
             /\ obs'[c].prefills = 0
             /\ ~obs'[c].tokFailed
             /\ ~obs'[c].uaf
             /\ UNCHANGED <<g_cancelled, g_model, g_ctx, heap, crashed>>]_vars

\* C17 witness: with no model loaded, a context still in g_ctx and a stop
\* pending, a call on a non-null handle has been turned away; the flag is
\* still set.
TurnedAwayWithStopPending ==
    /\ gen[1].pc = "returned"
    /\ ~Ran(1)
    /\ gen[1].handle # NULL
    /\ sink[1] = <<>>
    /\ g_model = NULL
    /\ g_ctx # NULL
    /\ g_cancelled

\* C18: a call on a valid handle terminates when every engine call and
\* callback returns: the loop never starts more than maxTokens iterations,
\* stop or no stop, and a call in flight eventually returns, its onDone
\* delivered last.
GenerateTerminates ==
    /\ [](\A c \in Callers :
             /\ gen[c].i <= gen[c].maxTokens
             /\ Len(obs[c].sampled) <= gen[c].maxTokens
             /\ Len(TokenEvents(sink[c])) <= gen[c].maxTokens)
    /\ \A c \in Callers :
           InFlight(c) ~> (gen[c].pc = "returned" /\ TokensThenDone(sink[c]))

\* C18 witness: a call with maxTokens = MaxTokens that no stop was issued
\* for has run all its iterations and returned after onDone.
UnstoppedCallReturned ==
    /\ gen[1].pc = "returned"
    /\ gen[1].maxTokens = MaxTokens
    /\ gen[1].i = MaxTokens
    /\ obs[1].stopAt = -1
    /\ ~g_cancelled
    /\ TokensThenDone(sink[1])

====
